---- MODULE Spec2Model ----
(***************************************************************************)
(* State-machine model of the Lenscorrection GStreamer element             *)
(* (python/lenscorrection.py).  The element's attributes are the           *)
(* variables; every virtual method the host calls (do_set_caps,            *)
(* do_set_property, do_get_property, do_transform_ip) is one action.       *)
(* Floating-point property values are written in tenths (2.8 -> 28).       *)
(***************************************************************************)
EXTENDS Integers, Sequences, FiniteSets, TLC

VARIABLES
    width, height,                       \* self.width, self.height
    aperture, focallength, distance,     \* optics properties (tenths)
    reverse, grid,                       \* boolean properties
    cammaker, cammodel, lens,            \* string properties
    cam, lensmodel,                      \* resolved profiles (or Absent)
    undistCoords, overlay,               \* map and overlay (or Absent)
    config,                              \* outcome of the latest do_set_caps
    dirty,                               \* a property was written since then
    last,                                \* the latest call and its result
    nops                                 \* number of calls made so far

props == <<aperture, focallength, distance, reverse, grid, cammaker, cammodel, lens>>

derived == <<cam, lensmodel, undistCoords, overlay>>

vars == <<width, height, props, derived, config, dirty, last, nops>>

----------------------------------------------------------------------------
(* Bounds of the model *)

\* number of host calls explored in one history
MaxOps == 4

\* frame widths 1..MaxW and heights 1..MaxH are announced and delivered
MaxW == 2

MaxH == 1

----------------------------------------------------------------------------
(* Module-level defaults, lenscorrection.py lines 33-42 *)

DEFAULT_WIDTH == 1920

DEFAULT_HIGH == 1080

DEFAULT_APERTURE == 28

DEFAULT_FOCALLENGTH == 25

DEFAULT_DISTANCE == 100

DEFAULT_REVERSE == FALSE

DEFAULT_GRID == FALSE

DEFAULT_CAMMAKER == "GoPro"

DEFAULT_CAMMODEL == "HD2"

DEFAULT_LENS == ""

\* an attribute that __init__ never assigned: reading it raises AttributeError
Absent == [attr |-> "absent"]

----------------------------------------------------------------------------
(* Inputs the host and the control plane can supply *)

Widths == 1..MaxW

Heights == 1..MaxH

PropNames == {"aperture", "focallength", "distance", "reverse", "grid",
              "cammaker", "cammodel", "lens"}

\* a name the element does not declare
UnknownNames == {"zoom"}

PropValues(name) ==
    CASE name = "aperture"    -> {DEFAULT_APERTURE, 56}
      [] name = "focallength" -> {DEFAULT_FOCALLENGTH, 500}
      [] name = "distance"    -> {DEFAULT_DISTANCE, 5}
      [] name = "reverse"     -> BOOLEAN
      [] name = "grid"        -> BOOLEAN
      [] name = "cammaker"    -> {DEFAULT_CAMMAKER, "Nonexistent"}
      [] name = "cammodel"    -> {DEFAULT_CAMMODEL, "HD3"}
      [] name = "lens"        -> {DEFAULT_LENS, "Wide"}
      [] OTHER                -> {"Wide"}

\* the geometries buffers are delivered in: the announced ones and, for an
\* element that was never configured, the geometry __init__ assumes
Geometries == (Widths \X Heights) \cup {<<DEFAULT_WIDTH, DEFAULT_HIGH>>}

\* a frame buffer: its geometry and whether inbuf.map(READ|WRITE) succeeds
Buffers ==
    { [width |-> g[1], height |-> g[2], mappable |-> m] :
        g \in Geometries, m \in BOOLEAN }

\* geometries announced when the overlay generator is exercised
GridWidths == {8, 12, 15, 640}

GridHeights == {8, 9, 480}

----------------------------------------------------------------------------
(* The Lensfun database, as find_cameras / find_lenses see it: ranked lists *)

DbCameras ==
    << [maker |-> "GoPro", model |-> "HD2", crop_factor |-> 56],
       [maker |-> "GoPro", model |-> "HD2", crop_factor |-> 60],
       [maker |-> "GoPro", model |-> "HD3", crop_factor |-> 56] >>

DbLenses ==
    << [model |-> "Std",  camera |-> "HD2"],
       [model |-> "Wide", camera |-> "HD2"],
       [model |-> "Std",  camera |-> "HD3"] >>

find_cameras(maker, model) ==
    SelectSeq(DbCameras, LAMBDA c : c.maker = maker /\ c.model = model)

find_lenses_all(camera) ==
    SelectSeq(DbLenses, LAMBDA l : l.camera = camera.model)

find_lenses(camera, name) ==
    SelectSeq(DbLenses, LAMBDA l : l.camera = camera.model /\ l.model = name)

----------------------------------------------------------------------------
(* query_lensfun, lenscorrection.py lines 155-190 *)

\* the last-ranked candidate instead of the first
Last(candidates) == candidates[Len(candidates)]

\* seq[0] in the source: the first-ranked candidate
First(candidates) == candidates[1]

\* the map built with the two dimensions exchanged
apply_geometry_distortion_transposed(lensprofile, crop, w, h, focal, ap, dist, rev) ==
    [width |-> h, height |-> w, lens |-> lensprofile, crop_factor |-> crop,
     focallength |-> focal, aperture |-> ap, distance |-> dist, reverse |-> rev]

\* lensfunpy.Modifier(...).initialize(...).apply_geometry_distortion():
\* a height x width x 2 coordinate array computed from these inputs
apply_geometry_distortion(lensprofile, crop, w, h, focal, ap, dist, rev) ==
    [width |-> w, height |-> h, lens |-> lensprofile, crop_factor |-> crop,
     focallength |-> focal, aperture |-> ap, distance |-> dist, reverse |-> rev]

\* the lens lookup of lines 170-173: filtered only when self.lens is non-empty
lookup_lenses(camera) ==
    IF lens # "" THEN find_lenses(camera, lens) ELSE find_lenses_all(camera)

\* a query that drops the held map as soon as the Modifier calls begin
query_lensfun_clearing(w, h, modOk) ==
    LET cams == find_cameras(cammaker, cammodel) IN
    IF cams = << >>
    THEN [ok |-> FALSE, error |-> "Camera not found",
          cam |-> cam, lensmodel |-> lensmodel, undistCoords |-> undistCoords,
          calls |-> <<"find_cameras">>]
    ELSE LET c == First(cams)
             lenses == lookup_lenses(c)
         IN  IF lenses = << >>
             THEN [ok |-> FALSE, error |-> "Lens not found",
                   cam |-> c, lensmodel |-> lensmodel, undistCoords |-> undistCoords,
                   calls |-> <<"find_cameras", "find_lenses">>]
             ELSE LET l == First(lenses) IN
                  IF ~modOk
                  THEN [ok |-> FALSE, error |-> "Modifier",
                        cam |-> c, lensmodel |-> l, undistCoords |-> Absent,
                        calls |-> <<"find_cameras", "find_lenses", "Modifier">>]
                  ELSE [ok |-> TRUE, error |-> "none",
                        cam |-> c, lensmodel |-> l,
                        undistCoords |-> apply_geometry_distortion(l, c.crop_factor,
                                             w, h, focallength, aperture, distance, reverse),
                        calls |-> <<"find_cameras", "find_lenses", "Modifier">>]

\* modOk: whether the Modifier calls of lines 179-182 complete without raising
query_lensfun(w, h, modOk) ==
    LET cams == find_cameras(cammaker, cammodel) IN
    IF cams = << >>
    THEN [ok |-> FALSE, error |-> "Camera not found",
          cam |-> cam, lensmodel |-> lensmodel, undistCoords |-> undistCoords,
          calls |-> <<"find_cameras">>]
    ELSE LET c == First(cams)
             lenses == lookup_lenses(c)
         IN  IF lenses = << >>
             THEN [ok |-> FALSE, error |-> "Lens not found",
                   cam |-> c, lensmodel |-> lensmodel, undistCoords |-> undistCoords,
                   calls |-> <<"find_cameras", "find_lenses">>]
             ELSE LET l == First(lenses) IN
                  IF ~modOk
                  THEN [ok |-> FALSE, error |-> "Modifier",
                        cam |-> c, lensmodel |-> l, undistCoords |-> undistCoords,
                        calls |-> <<"find_cameras", "find_lenses", "Modifier">>]
                  ELSE [ok |-> TRUE, error |-> "none",
                        cam |-> c, lensmodel |-> l,
                        undistCoords |-> apply_geometry_distortion(l, c.crop_factor,
                                             w, h, focallength, aperture, distance, reverse),
                        calls |-> <<"find_cameras", "find_lenses", "Modifier">>]

----------------------------------------------------------------------------
(* draw_grid, lenscorrection.py lines 192-222 *)

\* the eighth rounded up instead of down
step_up(extent) == (extent + 7) \div 8

\* int(self.width/8), int(self.height/8)
step(extent) == extent \div 8

\* the seven dividers cv2.line draws along one axis (lines 197-200)
dividers(extent) == { step(extent) * i : i \in 1..7 }

\* c, l: self.cam and self.lensmodel as query_lensfun left them.  The overlay
\* is assigned and the lines drawn before the first putText reads self.cam.
draw_grid(w, h, c, l) ==
    LET blank == [width |-> w, height |-> h,
                  xs |-> dividers(w), ys |-> dividers(h), text |-> << >>]
    IN  IF c = Absent
        THEN [overlay |-> blank, raised |-> "AttributeError"]
        ELSE IF l = Absent
        THEN [overlay |-> [blank EXCEPT !.text = <<c>>], raised |-> "AttributeError"]
        ELSE [overlay |-> [blank EXCEPT !.text = <<c, l, <<focallength, aperture, distance>> >>],
              raised |-> "none"]

----------------------------------------------------------------------------
(* The record kept of the latest call *)

NoBuf == [attr |-> "none"]

\* before the first call
NoCall ==
    [op |-> "init", name |-> "", value |-> "", buf |-> NoBuf,
     ret |-> "none", raised |-> "none", err |-> "none",
     calls |-> << >>, out |-> NoBuf, retry |-> FALSE]

\* a call of kind op; retry: the call before it was a transform that returned ERROR
Call(op) ==
    [NoCall EXCEPT !.op = op, !.retry = (last.op = "transform" /\ last.ret = "ERROR")]

----------------------------------------------------------------------------
(* __init__, lenscorrection.py lines 140-153 *)

Init ==
    /\ width = DEFAULT_WIDTH
    /\ height = DEFAULT_HIGH
    /\ aperture = DEFAULT_APERTURE
    /\ focallength = DEFAULT_FOCALLENGTH
    /\ distance = DEFAULT_DISTANCE
    /\ reverse = DEFAULT_REVERSE
    /\ grid = DEFAULT_GRID
    /\ cammaker = DEFAULT_CAMMAKER
    /\ cammodel = DEFAULT_CAMMODEL
    /\ lens = DEFAULT_LENS
    /\ cam = Absent
    /\ lensmodel = Absent
    /\ undistCoords = Absent
    /\ overlay = Absent
    /\ config = "Unconfigured"
    /\ dirty = FALSE
    /\ last = NoCall
    /\ nops = 0

----------------------------------------------------------------------------
(* do_set_caps, lenscorrection.py lines 224-235 *)

\* draw_grid invoked whatever the flag
wants_grid_always == TRUE

\* whether line 232-233 invokes draw_grid
wants_grid == grid

do_set_caps(w, h, modOk) ==
    LET q == query_lensfun(w, h, modOk)
        g == draw_grid(w, h, q.cam, q.lensmodel)
        drew == wants_grid
        raised == IF drew THEN g.raised ELSE "none"
    IN  /\ nops < MaxOps
        /\ width' = w
        /\ height' = h
        /\ cam' = q.cam
        /\ lensmodel' = q.lensmodel
        /\ undistCoords' = q.undistCoords
        /\ overlay' = IF drew THEN g.overlay ELSE overlay
        /\ config' = IF q.ok /\ raised = "none" THEN "Ready" ELSE "Failed"
        /\ dirty' = FALSE
        /\ last' = [Call("set_caps") EXCEPT
                      !.buf = [width |-> w, height |-> h, modOk |-> modOk],
                      !.ret = IF raised = "none" THEN "True" ELSE "none",
                      !.raised = raised,
                      !.err = q.error,
                      !.calls = q.calls \o (IF drew THEN <<"draw_grid">> ELSE << >>)]
        /\ nops' = nops + 1
        /\ UNCHANGED props

SetCaps == \E w \in Widths, h \in Heights, modOk \in BOOLEAN : do_set_caps(w, h, modOk)

----------------------------------------------------------------------------
(* do_get_property, lenscorrection.py lines 237-255 *)

Recognized(name) == name \in PropNames

\* the value the if/elif chain returns for a recognized name
do_get_property(name) ==
    CASE name = "aperture"    -> aperture
      [] name = "focallength" -> focallength
      [] name = "distance"    -> distance
      [] name = "reverse"     -> reverse
      [] name = "grid"        -> grid
      [] name = "cammaker"    -> cammaker
      [] name = "cammodel"    -> cammodel
      [] name = "lens"        -> lens

GetProperty(name) ==
    /\ nops < MaxOps
    /\ last' = IF Recognized(name)
               THEN [Call("get") EXCEPT !.name = name, !.value = do_get_property(name),
                                        !.ret = "value"]
               ELSE [Call("get") EXCEPT !.name = name, !.raised = "AttributeError"]
    /\ nops' = nops + 1
    /\ UNCHANGED <<width, height, props, derived, config, dirty>>

----------------------------------------------------------------------------
(* do_set_property, lenscorrection.py lines 257-275 *)

\* the cammodel branch assigning self.cammaker
target_crossed(name) ==
    IF name = "cammodel" THEN "cammaker" ELSE IF Recognized(name) THEN name ELSE ""

\* an else branch that assigns self.lens instead of raising
target_fallthrough(name) == IF Recognized(name) THEN name ELSE "lens"

\* the attribute the if/elif chain assigns for a name; "" for the else branch
target(name) == IF Recognized(name) THEN name ELSE ""

\* the new value of attribute attr after do_set_property(name, value)
assigned(attr, old, name, value) == IF target(name) = attr THEN value ELSE old

\* a setter that drops the map whenever a recognized property is written
do_set_property_invalidating(name, value) ==
    /\ nops < MaxOps
    /\ aperture'    = assigned("aperture", aperture, name, value)
    /\ focallength' = assigned("focallength", focallength, name, value)
    /\ distance'    = assigned("distance", distance, name, value)
    /\ reverse'     = assigned("reverse", reverse, name, value)
    /\ grid'        = assigned("grid", grid, name, value)
    /\ cammaker'    = assigned("cammaker", cammaker, name, value)
    /\ cammodel'    = assigned("cammodel", cammodel, name, value)
    /\ lens'        = assigned("lens", lens, name, value)
    /\ undistCoords' = IF target(name) # "" THEN Absent ELSE undistCoords
    /\ last' = [Call("set") EXCEPT
                  !.name = name, !.value = value,
                  !.raised = IF target(name) = "" THEN "AttributeError" ELSE "none"]
    /\ dirty' = (dirty \/ target(name) # "")
    /\ nops' = nops + 1
    /\ UNCHANGED <<width, height, cam, lensmodel, overlay, config>>

do_set_property(name, value) ==
    /\ nops < MaxOps
    /\ aperture'    = assigned("aperture", aperture, name, value)
    /\ focallength' = assigned("focallength", focallength, name, value)
    /\ distance'    = assigned("distance", distance, name, value)
    /\ reverse'     = assigned("reverse", reverse, name, value)
    /\ grid'        = assigned("grid", grid, name, value)
    /\ cammaker'    = assigned("cammaker", cammaker, name, value)
    /\ cammodel'    = assigned("cammodel", cammodel, name, value)
    /\ lens'        = assigned("lens", lens, name, value)
    /\ last' = [Call("set") EXCEPT
                  !.name = name, !.value = value,
                  !.raised = IF target(name) = "" THEN "AttributeError" ELSE "none"]
    /\ dirty' = (dirty \/ target(name) # "")
    /\ nops' = nops + 1
    /\ UNCHANGED <<width, height, derived, config>>

SetProperty ==
    \E name \in PropNames \cup UnknownNames :
        \E value \in PropValues(name) : do_set_property(name, value)

GetPropertyAny == \E name \in PropNames \cup UnknownNames : GetProperty(name)

----------------------------------------------------------------------------
(* do_transform_ip, lenscorrection.py lines 277-302 *)

\* numpy.ndarray(shape=(height, width, 3), buffer=data) needs that many bytes
fits(buf) == height * width * 3 <= buf.height * buf.width * 3

\* cv2.addWeighted accepts two arrays of one size only
same_size(ov) == ov.height = height /\ ov.width = width

\* frame[:] = array[:] assigns when array's shape broadcasts to the frame's
broadcasts(map) ==
    /\ map.height = height \/ map.height = 1
    /\ map.width = width \/ map.width = 1

\* whether line 287 takes the compositing branch
composites == grid

\* a transform that passes the frame through when no map was ever built
transform_error_passthrough(buf) ==
    IF ~buf.mappable THEN "MapError"
    ELSE IF ~fits(buf) THEN "TypeError"
    ELSE IF undistCoords = Absent THEN "none"
    ELSE IF composites /\ overlay = Absent THEN "AttributeError"
    ELSE IF composites /\ ~same_size(overlay) THEN "cv2.error"
    ELSE IF ~broadcasts(undistCoords) THEN "ValueError"
    ELSE "none"

\* the exception raised inside the try block, "none" when line 295 is reached
transform_error(buf) ==
    IF ~buf.mappable THEN "MapError"
    ELSE IF ~fits(buf) THEN "TypeError"
    ELSE IF composites /\ overlay = Absent THEN "AttributeError"
    ELSE IF composites /\ ~same_size(overlay) THEN "cv2.error"
    ELSE IF undistCoords = Absent THEN "AttributeError"
    ELSE IF ~broadcasts(undistCoords) THEN "ValueError"
    ELSE "none"

\* the value do_transform_ip returns: both except clauses return ERROR
transform_ret(error) == IF error = "none" THEN "OK" ELSE "ERROR"

\* handlers that catch Gst.MapError alone
transform_raised_maperror_only(error) ==
    IF error \in {"none", "MapError"} THEN "none" ELSE error

\* what the exception handlers let out of do_transform_ip
transform_raised(error) == "none"

\* compositing done in place: a frame that fails after line 288 keeps the overlay
transform_out_inplace(buf, error) ==
    IF error = "none"
    THEN [src |-> buf, overlay |-> IF composites THEN overlay ELSE Absent,
          map |-> undistCoords]
    ELSE IF error = "ValueError" /\ composites
    THEN [src |-> buf, overlay |-> overlay, map |-> Absent]
    ELSE [src |-> buf, overlay |-> Absent, map |-> Absent]

\* the buffer's content after the call: rewritten only by line 294
transform_out(buf, error) ==
    IF error = "none"
    THEN [src |-> buf, overlay |-> IF composites THEN overlay ELSE Absent,
          map |-> undistCoords]
    ELSE [src |-> buf, overlay |-> Absent, map |-> Absent]

\* a transform that keeps the geometry of the buffer it was handed
do_transform_ip_keeping(buf) ==
    LET error == transform_error(buf) IN
    /\ nops < MaxOps
    /\ last' = [Call("transform") EXCEPT
                  !.buf = buf, !.err = error,
                  !.ret = IF transform_raised(error) = "none"
                          THEN transform_ret(error) ELSE "none",
                  !.raised = transform_raised(error),
                  !.out = transform_out(buf, error)]
    /\ width' = buf.width
    /\ height' = buf.height
    /\ nops' = nops + 1
    /\ UNCHANGED <<props, derived, config, dirty>>

do_transform_ip(buf) ==
    LET error == transform_error(buf) IN
    /\ nops < MaxOps
    /\ last' = [Call("transform") EXCEPT
                  !.buf = buf, !.err = error,
                  !.ret = IF transform_raised(error) = "none"
                          THEN transform_ret(error) ELSE "none",
                  !.raised = transform_raised(error),
                  !.out = transform_out(buf, error)]
    /\ nops' = nops + 1
    /\ UNCHANGED <<width, height, props, derived, config, dirty>>

TransformIp == \E buf \in Buffers : do_transform_ip(buf)

----------------------------------------------------------------------------

Next == SetCaps \/ SetProperty \/ GetPropertyAny \/ TransformIp

Spec == Init /\ [][Next]_vars

(* The overlay generator over larger frames: geometry announcements at the   *)
(* GridWidths x GridHeights sizes with the grid property switched on and off *)

SetCapsGrid == \E w \in GridWidths, h \in GridHeights : do_set_caps(w, h, TRUE)

SetGrid == \E value \in BOOLEAN : do_set_property("grid", value)

NextGrid == SetCapsGrid \/ SetGrid

SpecGrid == Init /\ [][NextGrid]_vars

----------------------------------------------------------------------------
(* Properties of the element *)

\* the state do_set_caps (re)builds and the values it builds it from
element == <<width, height, props, derived>>

\* a step that is one call of kind op
Step(op) == nops' = nops + 1 /\ last'.op = op

\* what a transform of buf would return and leave in the buffer, as a
\* function of the current state
outcome(buf) ==
    LET error == transform_error(buf) IN
    [ret |-> transform_ret(error), out |-> transform_out(buf, error)]

\* C1: once the configuration run by do_set_caps has failed, every
\* do_transform_ip returns ERROR until a later do_set_caps succeeds,
\* whatever an earlier configuration left behind.
C1_FailedConfigRejectsFrames ==
    (config = "Failed" /\ last.op = "transform") => last.ret = "ERROR"

\* C2: while do_set_caps was never called, every do_transform_ip returns
\* ERROR, whatever the property values (grid included).
C2_UnconfiguredRejectsFrames ==
    (config = "Unconfigured" /\ last.op = "transform") => last.ret = "ERROR"

\* a mappable buffer of the geometry __init__ assumes, transformed before any
\* do_set_caps with grid switched on
C2_Witness ==
    /\ config = "Unconfigured"
    /\ last.op = "transform"
    /\ last.buf = [width |-> DEFAULT_WIDTH, height |-> DEFAULT_HIGH, mappable |-> TRUE]
    /\ grid
    /\ last.ret = "ERROR"

\* C3: a do_set_property call changes the outcome of no do_transform_ip: for
\* every buffer, the result and the map and overlay applied are after the
\* write what they were before it.
C3_WritesDeferred ==
    [][Step("set") => \A buf \in Buffers : outcome(buf)' = outcome(buf)]_vars

\* C4 as stated: after a successful do_set_caps and with no property written
\* since, the map has the announced geometry and every do_transform_ip on a
\* buffer of that geometry returns OK and leaves the buffer's shape alone.
C4_ReadyFramesSucceed_AnyBuffer ==
    (config = "Ready" /\ ~dirty) =>
        /\ undistCoords # Absent
        /\ undistCoords.width = width /\ undistCoords.height = height
        /\ (last.op = "transform" /\ last.buf.width = width /\ last.buf.height = height)
              => (last.ret = "OK" /\ last.out.src = last.buf)

\* C4 amended: the same for every buffer of that geometry that the host can
\* map for reading and writing.
C4_ReadyFramesSucceed ==
    (config = "Ready" /\ ~dirty) =>
        /\ undistCoords # Absent
        /\ undistCoords.width = width /\ undistCoords.height = height
        /\ (/\ last.op = "transform"
            /\ last.buf.width = width /\ last.buf.height = height
            /\ last.buf.mappable)
              => (last.ret = "OK" /\ last.out.src = last.buf
                  /\ last.out.map = undistCoords)

\* a second frame in a row transformed successfully at width 2
C4_Witness ==
    /\ config = "Ready" /\ ~dirty
    /\ width = 2
    /\ last.op = "transform" /\ last.ret = "OK"
    /\ last.buf = [width |-> width, height |-> height, mappable |-> TRUE]
    /\ nops >= 3

\* C5: no do_transform_ip raises: every failure inside it comes back as ERROR,
\* and the call changes nothing of the element, so that the call after a
\* failed one is decided by the same configuration.
C5_FailuresArePerBuffer ==
    [][Step("transform") =>
          /\ last'.raised = "none"
          /\ last'.ret = (IF last'.err = "none" THEN "OK" ELSE "ERROR")
          /\ UNCHANGED <<element, config>>]_vars

\* a frame transformed successfully right after a frame that failed
C5_Witness == last.op = "transform" /\ last.retry /\ last.ret = "OK"
\* C6: after do_set_property(name, v) for a recognized name, do_get_property
\* returns v for that name and what it returned before for the seven others;
\* and do_get_property returns the attribute's value and changes nothing.
C6_IndependentAccessors ==
    [][/\ Step("set") =>
            \A n \in PropNames :
                last'.name = n =>
                    /\ do_get_property(n)' = last'.value
                    /\ \A m \in PropNames \ {n} :
                           do_get_property(m)' = do_get_property(m)
       /\ (Step("get") /\ Recognized(last'.name)) =>
            /\ \A n \in PropNames :
                   last'.name = n => last'.value = do_get_property(n)
            /\ UNCHANGED props]_vars

\* cammodel written to a new value on a configured element
C6_Witness ==
    /\ last.op = "set" /\ last.name = "cammodel" /\ last.value = "HD3"
    /\ cammodel = "HD3" /\ cammaker = DEFAULT_CAMMAKER
    /\ config = "Ready"

\* C7: do_set_property and do_get_property with an undeclared name raise
\* AttributeError and change no property value and nothing of the
\* configuration (geometry, profiles, map, overlay).
C7_UnknownNameRejected ==
    [][((Step("set") \/ Step("get")) /\ ~Recognized(last'.name)) =>
          /\ last'.raised = "AttributeError"
          /\ UNCHANGED <<element, config>>]_vars

\* an undeclared name written on a configured element
C7_Witness ==
    /\ last.op = "set" /\ last.name \in UnknownNames
    /\ last.raised = "AttributeError"
    /\ config = "Ready"

\* C8: in the query run by do_set_caps, no camera candidate means "Camera
\* not found" with neither lens lookup nor map build attempted; a camera but
\* no lens candidate (lookup filtered by lens only when lens is non-empty)
\* means "Lens not found" with no map build attempted; otherwise the first
\* candidate of each lookup is the profile held.
C8_ProfileResolution ==
    last.op = "set_caps" =>
        LET cams == SelectSeq(DbCameras,
                        LAMBDA c : c.maker = cammaker /\ c.model = cammodel)
            lenses == SelectSeq(DbLenses,
                        LAMBDA l : /\ l.camera = cams[1].model
                                   /\ (lens = "" \/ l.model = lens))
        IN  IF cams = << >>
            THEN last.err = "Camera not found" /\ last.calls[1] = "find_cameras"
                 /\ \A i \in 2..Len(last.calls) : last.calls[i] = "draw_grid"
            ELSE IF lenses = << >>
            THEN last.err = "Lens not found" /\ cam = cams[1]
                 /\ \A i \in DOMAIN last.calls : last.calls[i] # "Modifier"
            ELSE /\ last.err \in {"none", "Modifier"}
                 /\ cam = cams[1]
                 /\ lensmodel = lenses[1]

\* the camera resolves to the first of two candidates and the unfiltered
\* lens lookup to the first of two lenses
C8_Witness ==
    /\ last.op = "set_caps" /\ last.err = "none"
    /\ lens = "" /\ cam = DbCameras[1] /\ lensmodel = DbLenses[1]
    /\ Len(find_cameras(cammaker, cammodel)) = 2

\* C9: draw_grid is invoked, and the overlay assigned, only inside a
\* do_set_caps call made while grid is true.
C9_GridOffNoOverlayBuilt ==
    [][(\/ overlay' # overlay
        \/ \E i \in DOMAIN last'.calls : last'.calls[i] = "draw_grid")
          => (last'.op = "set_caps" /\ grid)]_vars

\* a geometry announcement with grid off that resolved the profiles and left
\* the overlay unbuilt
C9_Witness ==
    /\ last.op = "set_caps" /\ ~grid /\ config = "Ready"
    /\ last.calls = <<"find_cameras", "find_lenses", "Modifier">>
    /\ overlay = Absent

\* C10 as stated: the dividers are at floor(i*width/8) and floor(i*height/8),
\* i in 1..7.
C10_DividersAtEighths ==
    overlay # Absent =>
        /\ overlay.xs = { (i * overlay.width) \div 8 : i \in 1..7 }
        /\ overlay.ys = { (i * overlay.height) \div 8 : i \in 1..7 }

\* C10 amended: the dividers are at i*floor(width/8) and i*floor(height/8),
\* i in 1..7; at 640x480 that is x in {80,...,560} and y in {60,...,420}.
C10_DividersAtStepMultiples ==
    overlay # Absent =>
        /\ overlay.xs = { i * (overlay.width \div 8) : i \in 1..7 }
        /\ overlay.ys = { i * (overlay.height \div 8) : i \in 1..7 }
        /\ (overlay.width = 640 /\ overlay.height = 480) =>
              /\ overlay.xs = {80, 160, 240, 320, 400, 480, 560}
              /\ overlay.ys = {60, 120, 180, 240, 300, 360, 420}

\* the overlay drawn for a 640x480 frame
C10_Witness ==
    /\ overlay # Absent
    /\ overlay.width = 640 /\ overlay.height = 480
    /\ 560 \in overlay.xs /\ 420 \in overlay.ys
\* C11: the camera profile, the lens profile, the map and the overlay change
\* only in a do_set_caps call; do_set_property, do_get_property and
\* do_transform_ip leave all four as they were.
C11_OnlySetCapsConfigures ==
    [][derived' # derived => Step("set_caps")]_vars

\* a recognized property written on a configured element whose map and
\* overlay are still the ones do_set_caps built
C11_Witness ==
    /\ last.op = "set" /\ last.name = "focallength"
    /\ focallength # DEFAULT_FOCALLENGTH
    /\ undistCoords # Absent /\ undistCoords.focallength = DEFAULT_FOCALLENGTH
    /\ overlay # Absent

\* whether a transform of buf gets as far as reading the overlay, the map
reads_overlay(buf) == buf.mappable /\ fits(buf) /\ composites

reads_map(buf) ==
    /\ buf.mappable /\ fits(buf)
    /\ composites => (overlay # Absent /\ same_size(overlay))

\* C12: no do_transform_ip reads a frame geometry together with a map or an
\* overlay that was built for another geometry, whether the latest
\* do_set_caps succeeded or failed.
C12_NoMixedGeometry ==
    last.op = "transform" =>
        /\ (reads_overlay(last.buf) /\ overlay # Absent) => same_size(overlay)
        /\ (reads_map(last.buf) /\ undistCoords # Absent) =>
              (undistCoords.width = width /\ undistCoords.height = height)

IsPrefix(steps, order) ==
    /\ Len(steps) <= Len(order)
    /\ \A i \in DOMAIN steps : steps[i] = order[i]

\* C14: a configuration runs profile resolution, map building and (when
\* grid is on) overlay generation in that order, each step only after the
\* steps before it succeeded, and ends Ready exactly when no step failed.
C14_StepsInSequence ==
    last.op = "set_caps" =>
        /\ IsPrefix(last.calls, <<"find_cameras", "find_lenses", "Modifier", "draw_grid">>)
        /\ (\E i \in DOMAIN last.calls : last.calls[i] = "draw_grid")
              => (grid /\ last.err = "none")
        /\ config = (IF last.err = "none" /\ last.raised = "none"
                     THEN "Ready" ELSE "Failed")

\* C15: whenever the configuration is Ready and grid is on, an overlay exists
\* and has the current frame geometry.
C15_ReadyGridHasOverlay ==
    (config = "Ready" /\ grid) => (overlay # Absent /\ same_size(overlay))

\* C16: whenever grid is off (after a do_set_caps made with grid off, after
\* a write of grid to false) no overlay is held.
C16_GridOffNoOverlayHeld ==
    (~grid /\ last.op \in {"set_caps", "set"}) => overlay = Absent

\* C17: do_transform_ip changes nothing of the element, and what it returns
\* and leaves in the buffer is what the buffer and the element's state at
\* the time of the call determine.
C17_TransformKeepsNoState ==
    [][Step("transform") =>
          /\ UNCHANGED element
          /\ \A buf \in Buffers :
                last'.buf = buf =>
                    /\ last'.ret = outcome(buf).ret
                    /\ last'.out = outcome(buf).out]_vars

\* a composited frame transformed successfully after two earlier frames
C17_Witness ==
    /\ last.op = "transform" /\ last.ret = "OK"
    /\ last.out.overlay # Absent
    /\ nops = 4 /\ config = "Ready" /\ ~dirty

\* C18: whenever a camera profile and a lens profile are both held, the lens
\* is one the database associates with that camera.
C18_LensBelongsToCamera ==
    (cam # Absent /\ lensmodel # Absent) =>
        \E i \in DOMAIN DbLenses :
            DbLenses[i] = lensmodel /\ DbLenses[i].camera = cam.model

\* C19: do_set_caps always returns True and never raises.
C19_SetCapsAlwaysAccepts ==
    last.op = "set_caps" => (last.raised = "none" /\ last.ret = "True")

\* C20: a do_transform_ip that returns ERROR leaves the buffer's content as
\* it was, and a buffer that carries the overlay also went through the map.
C20_FailedFrameUntouched ==
    last.op = "transform" =>
        /\ last.ret = "ERROR" =>
              last.out = [src |-> last.buf, overlay |-> Absent, map |-> Absent]
        /\ last.out.overlay # Absent => last.out.map # Absent
        /\ last.ret = "OK" => last.out.map # Absent

\* a frame that was composited with the overlay and then failed at the
\* write-back, its buffer untouched
C20_Witness ==
    /\ last.op = "transform" /\ last.err = "ValueError"
    /\ grid /\ overlay # Absent
    /\ last.out.overlay = Absent

====
